---- MODULE Spec2Model ----
(***************************************************************************)
(* Model of batch_resize_icon.py: main() driving IconResizer through       *)
(* validation, output-directory resolution, source normalisation, the      *)
(* 13-size resize loop, the manifest write and the final report.           *)
(* The filesystem (the source file and the output directories) is part of  *)
(* the state; I/O failures, interrupts and a concurrent replacement of the *)
(* source file are environment choices, each bounded.                      *)
(***************************************************************************)
EXTENDS Integers, Sequences, FiniteSets, TLC

VARIABLES
    pc,             \* position of main(): prompt, validate, resolve, normalize,
                    \* resize, manifest, report, exit
    input_image,    \* args.input_image is set (TRUE) or still to be prompted for
    output_dir,     \* args.output_dir was given (-o)
    auto_scale,     \* args.auto_scale (-a)
    src,            \* what is on disk at the source path
    fs,             \* the output directories: path -> directory entry
    now,            \* the last value int(time.time()) returned
    output_path,    \* self.output_path (<<>> while unset)
    source_img,     \* the image returned by _prepare_source_image
    idx,            \* position of the for loop in ICON_SIZES
    generated_count,\* generate_icons' local counter
    result,         \* how main() ended
    err,            \* the exception _validate_input raised (NoErr when none)
    vsrc,           \* the source as _validate_input saw it
    validated,      \* "pending", "ok" or "failed"
    mkdirDone,      \* mkdir was called in this run
    written,        \* names of the files this run wrote completely
    attempted,      \* the sizes this run's loop has attempted, in order
    failedSizes,    \* the sizes logged as failed in this run
    countLogged,    \* the count of the 'Successfully generated n/13' line, -1 before
    reported,       \* the 'All icons generated successfully' lines were logged
    interrupted,    \* a KeyboardInterrupt was delivered in this run
    manifestFailed, \* the manifest write raised in this run
    faults,         \* I/O failures injected so far
    srcChanges,     \* replacements of the source file so far
    runNo,          \* the number of this invocation
    fs0,            \* the filesystem before the first invocation
    fsStart,        \* the filesystem when this invocation started
    prev            \* how the previous invocation ended and whether its
                    \* validation had passed

vars == << pc, input_image, output_dir, auto_scale, src, fs, now, output_path,
           source_img, idx, generated_count, result, err, vsrc, validated,
           mkdirDone, written, attempted, failedSizes, countLogged, reported,
           interrupted, manifestFailed, faults, srcChanges, runNo, fs0,
           fsStart, prev >>

(***************************************************************************)
(* Program constants                                                       *)
(***************************************************************************)
ICON_SIZES == << 20, 29, 40, 58, 60, 76, 80, 87, 120, 152, 167, 180, 1024 >>

SUPPORTED_FORMATS == { ".png", ".jpg", ".jpeg" }

SOURCE_SIZE == 1024

(***************************************************************************)
(* Bounds of the model                                                     *)
(***************************************************************************)
MaxFaults == 1

MaxSrcChanges == 1

MaxRuns == 2

MaxClock == 1

\* edge lengths the source image may have: below, at and above SOURCE_SIZE
Edges == { 512, 1024, 2048 }

(***************************************************************************)
(* Values                                                                  *)
(***************************************************************************)
NoImg == [ w |-> 0, h |-> 0, mode |-> "none", passes |-> 0 ]

\* an image: its size, its colour mode and the number of resampling passes
\* that produced it from the decoded source
Img(w, h, mode, passes) == [ w |-> w, h |-> h, mode |-> mode, passes |-> passes ]

\* str.lower() on the suffixes the model uses
Lower(s) ==
    CASE s = ".PNG" -> ".png"
      [] s = ".JPG" -> ".jpg"
      [] s = ".GIF" -> ".gif"
      [] OTHER -> s

SrcFile(suffix, decodable, w, h, mode) ==
    [ kind |-> "file", suffix |-> suffix, decodable |-> decodable,
      w |-> w, h |-> h, mode |-> mode ]

SrcMissing == [ kind |-> "missing", suffix |-> ".png", decodable |-> FALSE,
                w |-> 0, h |-> 0, mode |-> "none" ]

SrcDir == [ kind |-> "dir", suffix |-> ".png", decodable |-> FALSE,
            w |-> 0, h |-> 0, mode |-> "none" ]

\* the images a source file can hold: PNG with alpha, JPEG without
SourceImages ==
    { SrcFile(".png", TRUE, w, h, "RGBA") : w \in Edges, h \in Edges }
      \cup { SrcFile(".JPG", TRUE, e, e, "RGB") : e \in Edges }

Sources ==
    { SrcMissing, SrcDir,
      SrcFile(".gif", TRUE, SOURCE_SIZE, SOURCE_SIZE, "RGBA"),
      SrcFile(".png", FALSE, 0, 0, "none") } \cup SourceImages

\* what the source file can be replaced by while the tool runs
Replacements ==
    { SrcMissing } \cup { SrcFile(".png", TRUE, e, e, "RGBA") : e \in Edges }

\* file names of an output directory
IconName(size) == << "_", size, ".png" >>

ManifestName == << "Contents.json" >>

UnrelatedName == << "unrelated.txt" >>

RECURSIVE SeqToSet(_)
SeqToSet(s) == IF s = << >> THEN {} ELSE { Head(s) } \cup SeqToSet(Tail(s))

IconNames == { IconName(s) : s \in SeqToSet(ICON_SIZES) }

GeneratedNames == IconNames \cup { ManifestName }

Names == GeneratedNames \cup { UnrelatedName }

\* file contents: absent, a PNG of an image, the manifest template, a file
\* truncated by a failed write, or bytes this tool did not produce
NoFile == [ kind |-> "none", img |-> NoImg ]

Png(img) == [ kind |-> "png", img |-> img ]

Template == [ kind |-> "template", img |-> NoImg ]

Partial == [ kind |-> "partial", img |-> NoImg ]

Foreign == [ kind |-> "foreign", img |-> NoImg ]

\* directory entries
Absent == [ kind |-> "absent", files |-> [ n \in Names |-> NoFile ] ]

RegularFile == [ kind |-> "file", files |-> [ n \in Names |-> NoFile ] ]

\* a directory left by an earlier use: an unrelated file, a stale _60.png and
\* a stale Contents.json
UsedDir ==
    [ kind |-> "dir",
      files |-> [ n \in Names |->
                    IF n \in { UnrelatedName, IconName(60), ManifestName }
                    THEN Foreign ELSE NoFile ] ]

ExplicitPath == << "out" >>

DefaultPath(t) == << "AppIcon.appiconset_", t >>

Paths == { ExplicitPath } \cup { DefaultPath(t) : t \in 0..MaxClock }

NoPath == << >>

\* exceptions: class, the message up to its first colon, the rest
NoErr == [ cls |-> "none", label |-> "none", detail |-> "none" ]

Err(cls, label, detail) == [ cls |-> cls, label |-> label, detail |-> detail ]

\* how main() ended
Running == [ kind |-> "running", code |-> -1, exc |-> "none" ]

Return(code) == [ kind |-> "return", code |-> code, exc |-> "none" ]

Raise(exc) == [ kind |-> "raise", code |-> -1, exc |-> exc ]

(***************************************************************************)
(* IconResizer._validate_input                                             *)
(***************************************************************************)
\* a faulty variant of SizePolicy: the auto_scale flag is not consulted, an
\* oversized image always passes
SizePolicyIgnoresAutoScale(width, auto) ==
    IF width < SOURCE_SIZE
    THEN Err("ValueError", "Image size is smaller than required", "dims")
    ELSE NoErr

\* the size check of lines 101-122 on a square image of edge `width`: the
\* exception it raises, or NoErr
SizePolicy(width, auto) ==
    IF width # SOURCE_SIZE
    THEN IF width < SOURCE_SIZE
         THEN Err("ValueError", "Image size is smaller than required", "dims")
         ELSE IF auto
              THEN NoErr
              ELSE Err("ValueError", "Image size is larger than required", "dims")
    ELSE NoErr

\* the body of the try block: Image.open, the square check, the size check
OpenAndCheck(s, auto) ==
    IF ~s.decodable
    THEN Err("UnidentifiedImageError", "cannot identify image file", "path")
    ELSE IF s.w # s.h
         THEN Err("ValueError", "Image must be square", "dims")
         ELSE SizePolicy(s.w, auto)

\* `except Exception as e: raise ValueError(f"Failed to open image: {e}")`:
\* every exception of the try block, the method's own ValueErrors included,
\* leaves as this ValueError, the original message kept as the detail
WrapOpenError(e) ==
    IF e = NoErr THEN NoErr ELSE Err("ValueError", "Failed to open image", e.label)

\* the exception _validate_input raises on source s, or NoErr
ValidateInput(s, auto) ==
    IF s.kind = "missing"
    THEN Err("FileNotFoundError", "Source image not found", "path")
    ELSE IF s.kind # "file"
         THEN Err("ValueError", "Path is not a file", "path")
         ELSE IF Lower(s.suffix) \notin SUPPORTED_FORMATS
              THEN Err("ValueError", "Unsupported format", s.suffix)
              ELSE WrapOpenError(OpenAndCheck(s, auto))

(***************************************************************************)
(* IconResizer._set_output_directory                                       *)
(***************************************************************************)
ResolvePath(explicit, t) == IF explicit THEN ExplicitPath ELSE DefaultPath(t)

\* the values int(time.time()) can return after it returned `last`; only the
\* branch without an explicit directory reads the clock
ClockReads(explicit, last) ==
    IF explicit THEN { last } ELSE { t \in last..(last + 1) : t <= MaxClock }

\* a faulty variant of Mkdir: exist_ok=False, an existing directory is an error
MkdirExistOkFalse(entry) ==
    IF entry.kind # "absent" THEN "FileExistsError" ELSE "ok"

\* Path.mkdir(parents=True, exist_ok=True) on a path holding `entry`
Mkdir(entry) == IF entry.kind = "file" THEN "FileExistsError" ELSE "ok"

(***************************************************************************)
(* IconResizer._prepare_source_image                                       *)
(***************************************************************************)
\* Image.open(self.source_path) raises when the path holds no decodable image
CanOpen(s) == s.kind = "file" /\ s.decodable

\* the method on an openable source: [ok, img]; ok = FALSE is the ValueError
\* of the upscale branch
PrepareSourceImage(s, auto) ==
    LET img == Img(s.w, s.h, "RGBA", 0)
    IN  IF img.w # SOURCE_SIZE /\ auto
        THEN IF img.w > SOURCE_SIZE
             THEN [ ok |-> TRUE, img |-> Img(SOURCE_SIZE, SOURCE_SIZE, "RGBA", 1) ]
             ELSE [ ok |-> FALSE, img |-> NoImg ]
        ELSE [ ok |-> TRUE, img |-> img ]

(***************************************************************************)
(* IconResizer.generate_icons, the body of one iteration                   *)
(***************************************************************************)
\* a faulty variant of ResizedImage: every size is resampled, SOURCE_SIZE too
ResizedImageAlwaysResampled(img, size) ==
    Img(size, size, img.mode, img.passes + 1)

\* the image saved for `size`: the prepared image itself at SOURCE_SIZE,
\* a LANCZOS resample of it otherwise
ResizedImage(img, size) ==
    IF size = SOURCE_SIZE
    THEN img
    ELSE Img(size, size, img.mode, img.passes + 1)

\* what a failed save can leave at the file's place: nothing changed (the
\* resize or the open failed) or a truncated file (the write failed)
AfterFailedWrite(old) == { old, Partial }

(***************************************************************************)
(* IconResizer.run                                                         *)
(***************************************************************************)
\* a faulty variant of FirstStepOfRun: run() calls generate_contents_json
\* before generate_icons
FirstStepOfRunManifest == "manifest"

\* the first step of run() once __init__ has returned
FirstStepOfRun == "normalize"

(***************************************************************************)
(* Initial states: main() after parse_arguments has returned               *)
(***************************************************************************)
InitFs(explicit) ==
    { [ p \in Paths |-> IF p = ExplicitPath THEN e ELSE Absent ] :
        e \in IF explicit THEN { Absent, UsedDir, RegularFile } ELSE { Absent } }

Init ==
    /\ input_image \in BOOLEAN
    /\ output_dir \in BOOLEAN
    /\ auto_scale \in BOOLEAN
    /\ src \in Sources
    /\ fs \in InitFs(output_dir)
    /\ pc = IF input_image THEN "validate" ELSE "prompt"
    /\ now = 0
    /\ output_path = NoPath
    /\ source_img = NoImg
    /\ idx = 1
    /\ generated_count = 0
    /\ result = Running
    /\ err = NoErr
    /\ vsrc = src
    /\ validated = "pending"
    /\ mkdirDone = FALSE
    /\ written = {}
    /\ attempted = << >>
    /\ failedSizes = {}
    /\ countLogged = -1
    /\ reported = FALSE
    /\ interrupted = FALSE
    /\ manifestFailed = FALSE
    /\ faults = 0
    /\ srcChanges = 0
    /\ runNo = 1
    /\ fs0 = fs
    /\ fsStart = fs
    /\ prev = [ result |-> Running, validated |-> "pending" ]

(***************************************************************************)
(* main(): the interactive prompt, lines 291-302 (outside the try block)   *)
(***************************************************************************)
\* a path was typed
PromptPath ==
    /\ pc = "prompt"
    /\ input_image' = TRUE
    /\ pc' = "validate"
    /\ UNCHANGED << result, interrupted >>

\* input() returned an empty line: 'No input file provided', return 1
PromptEmpty ==
    /\ pc = "prompt"
    /\ result' = Return(1)
    /\ pc' = "exit"
    /\ UNCHANGED << input_image, interrupted >>

\* input() met end of file: EOFError, raised outside the try block
PromptEOF ==
    /\ pc = "prompt"
    /\ result' = Raise("EOFError")
    /\ pc' = "exit"
    /\ UNCHANGED << input_image, interrupted >>

Prompt ==
    /\ (PromptPath \/ PromptEmpty \/ PromptEOF)
    /\ UNCHANGED << output_dir, auto_scale, src, fs, now, output_path,
                    source_img, idx, generated_count, err, vsrc, validated,
                    mkdirDone, written, attempted, failedSizes, countLogged,
                    reported, manifestFailed, faults, srcChanges, runNo,
                    fs0, fsStart, prev >>

(***************************************************************************)
(* IconResizer.__init__: _validate_input, then _set_output_directory       *)
(***************************************************************************)
\* a faulty variant of AfterValidation: the exception is swallowed and
\* __init__ goes on to line 70
AfterValidationSwallowed(e) == "resolve"

\* where main() continues once _validate_input has raised e or returned:
\* an exception leaves __init__ at line 67, before line 70, and main
\* returns 1 (lines 319-321)
AfterValidation(e) == IF e = NoErr THEN "resolve" ELSE "exit"

\* line 67
Validate ==
    /\ pc = "validate"
    /\ vsrc' = src
    /\ err' = ValidateInput(src, auto_scale)
    /\ validated' = IF err' = NoErr THEN "ok" ELSE "failed"
    /\ pc' = AfterValidation(err')
    /\ result' = IF pc' = "exit" THEN Return(1) ELSE result
    /\ UNCHANGED << input_image, output_dir, auto_scale, src, fs, now,
                    output_path, source_img, idx, generated_count, mkdirDone,
                    written, attempted, failedSizes, countLogged, reported,
                    interrupted, manifestFailed, faults, srcChanges, runNo,
                    fs0, fsStart, prev >>

\* line 70; a failing mkdir is re-raised as IOError and main returns 1
SetOutputDirectory ==
    /\ pc = "resolve"
    /\ \E t \in ClockReads(output_dir, now) :
       LET path == ResolvePath(output_dir, t)
       IN  /\ now' = t
           /\ mkdirDone' = TRUE
           /\ IF Mkdir(fs[path]) = "ok"
              THEN /\ output_path' = path
                   /\ fs' = [ fs EXCEPT ![path].kind = "dir" ]
                   /\ pc' = FirstStepOfRun
                   /\ UNCHANGED result
              ELSE /\ pc' = "exit"
                   /\ result' = Return(1)
                   /\ UNCHANGED << output_path, fs >>
    /\ UNCHANGED << input_image, output_dir, auto_scale, src, source_img,
                    idx, generated_count, err, vsrc, validated, written,
                    attempted, failedSizes, countLogged, reported, interrupted,
                    manifestFailed, faults, srcChanges, runNo, fs0, fsStart,
                    prev >>

(***************************************************************************)
(* generate_icons: _prepare_source_image (line 189)                        *)
(***************************************************************************)
\* an exception here is not caught by generate_icons: run logs it and
\* re-raises, main returns 1
Normalize ==
    /\ pc = "normalize"
    /\ IF CanOpen(src) /\ PrepareSourceImage(src, auto_scale).ok
       THEN /\ source_img' = PrepareSourceImage(src, auto_scale).img
            /\ pc' = "resize"
            /\ UNCHANGED result
       ELSE /\ pc' = "exit"
            /\ result' = Return(1)
            /\ UNCHANGED source_img
    /\ UNCHANGED << input_image, output_dir, auto_scale, src, fs, now,
                    output_path, idx, generated_count, err, vsrc, validated,
                    mkdirDone, written, attempted, failedSizes, countLogged,
                    reported, interrupted, manifestFailed, faults, srcChanges,
                    runNo, fs0, fsStart, prev >>

(***************************************************************************)
(* generate_icons: one iteration of the loop, lines 193-214, and after the *)
(* last one lines 217-219                                                  *)
(***************************************************************************)
\* where generate_icons continues after an iteration, and the count it logs
\* on leaving the loop
AfterIteration(count) ==
    /\ idx' = idx + 1
    /\ attempted' = Append(attempted, ICON_SIZES[idx])
    /\ generated_count' = count
    /\ IF idx = Len(ICON_SIZES)
       THEN /\ pc' = "manifest"
            /\ countLogged' = count
       ELSE /\ pc' = "resize"
            /\ UNCHANGED countLogged

\* resize and save succeed
ResizeOk ==
    /\ pc = "resize"
    /\ LET size == ICON_SIZES[idx]
       IN  /\ fs' = [ fs EXCEPT ![output_path].files[IconName(size)] =
                                   Png(ResizedImage(source_img, size)) ]
           /\ written' = written \cup { IconName(size) }
    /\ AfterIteration(generated_count + 1)
    /\ UNCHANGED << failedSizes, faults, result >>

\* a faulty variant of ResizeFails: the exception is not caught in the loop,
\* it leaves generate_icons and run, and main returns 1
ResizeFailsAborts ==
    /\ pc = "resize"
    /\ faults < MaxFaults
    /\ faults' = faults + 1
    /\ LET size == ICON_SIZES[idx]
       IN  /\ \E c \in AfterFailedWrite(fs[output_path].files[IconName(size)]) :
                 fs' = [ fs EXCEPT ![output_path].files[IconName(size)] = c ]
           /\ failedSizes' = failedSizes \cup { size }
           /\ attempted' = Append(attempted, size)
    /\ pc' = "exit"
    /\ result' = Return(1)
    /\ UNCHANGED << idx, generated_count, countLogged, written >>

\* resize or save raises: `except Exception` logs the error, the loop goes on
ResizeFails ==
    /\ pc = "resize"
    /\ faults < MaxFaults
    /\ faults' = faults + 1
    /\ LET size == ICON_SIZES[idx]
       IN  /\ \E c \in AfterFailedWrite(fs[output_path].files[IconName(size)]) :
                 fs' = [ fs EXCEPT ![output_path].files[IconName(size)] = c ]
           /\ failedSizes' = failedSizes \cup { size }
    /\ AfterIteration(generated_count)
    /\ UNCHANGED << written, result >>

ResizeStep ==
    /\ (ResizeOk \/ ResizeFails)
    /\ UNCHANGED << input_image, output_dir, auto_scale, src, now, output_path,
                    source_img, err, vsrc, validated, mkdirDone, reported,
                    interrupted, manifestFailed, srcChanges, runNo, fs0,
                    fsStart, prev >>

(***************************************************************************)
(* generate_contents_json (line 237) and the report (lines 238-240, 313)   *)
(***************************************************************************)
ManifestOk ==
    /\ pc = "manifest"
    /\ fs' = [ fs EXCEPT ![output_path].files[ManifestName] = Template ]
    /\ written' = written \cup { ManifestName }
    /\ pc' = "report"
    /\ UNCHANGED << result, manifestFailed, faults >>

\* a faulty variant of ManifestFails: the exception is logged and not
\* re-raised, run goes on to its success messages
ManifestFailsSwallowed ==
    /\ pc = "manifest"
    /\ faults < MaxFaults
    /\ faults' = faults + 1
    /\ \E c \in AfterFailedWrite(fs[output_path].files[ManifestName]) :
          fs' = [ fs EXCEPT ![output_path].files[ManifestName] = c ]
    /\ manifestFailed' = TRUE
    /\ pc' = "report"
    /\ UNCHANGED << written, result >>

\* open or write raises: logged, re-raised by generate_contents_json and by
\* run, main returns 1
ManifestFails ==
    /\ pc = "manifest"
    /\ faults < MaxFaults
    /\ faults' = faults + 1
    /\ \E c \in AfterFailedWrite(fs[output_path].files[ManifestName]) :
          fs' = [ fs EXCEPT ![output_path].files[ManifestName] = c ]
    /\ manifestFailed' = TRUE
    /\ pc' = "exit"
    /\ result' = Return(1)
    /\ UNCHANGED written

GenerateContentsJson ==
    /\ (ManifestOk \/ ManifestFails)
    /\ UNCHANGED << input_image, output_dir, auto_scale, src, now, output_path,
                    source_img, idx, generated_count, err, vsrc, validated,
                    mkdirDone, attempted, failedSizes, countLogged, reported,
                    interrupted, srcChanges, runNo, fs0, fsStart, prev >>

Report ==
    /\ pc = "report"
    /\ reported' = TRUE
    /\ result' = Return(0)
    /\ pc' = "exit"
    /\ UNCHANGED << input_image, output_dir, auto_scale, src, fs, now,
                    output_path, source_img, idx, generated_count, err, vsrc,
                    validated, mkdirDone, written, attempted, failedSizes,
                    countLogged, manifestFailed, interrupted, faults,
                    srcChanges, runNo, fs0, fsStart, prev >>

(***************************************************************************)
(* KeyboardInterrupt                                                       *)
(***************************************************************************)
\* main's answer to a KeyboardInterrupt raised at position p: inside the try
\* block (lines 304-317) it returns 130; the prompt is outside it
OnInterrupt(p) ==
    IF p = "prompt" THEN Raise("KeyboardInterrupt") ELSE Return(130)

\* KeyboardInterrupt is no Exception: none of the `except Exception` clauses
\* (lines 133, 151, 213, 229, 241) catches it
Interrupt ==
    /\ pc # "exit"
    /\ interrupted' = TRUE
    /\ result' = OnInterrupt(pc)
    /\ pc' = "exit"
    /\ UNCHANGED << input_image, output_dir, auto_scale, src, fs, now,
                    output_path, source_img, idx, generated_count, err, vsrc,
                    validated, mkdirDone, written, attempted, failedSizes,
                    countLogged, reported, manifestFailed, faults, srcChanges,
                    runNo, fs0, fsStart, prev >>

\* `sys.exit(main())`: the exit statuses the process can end with. An int
\* main returned is the status. An exception main let through ends the
\* interpreter with status 1; an uncaught KeyboardInterrupt does so too, or,
\* on interpreters that re-raise SIGINT, ends the process by that signal,
\* which a shell shows as 130
ExitStatuses(r) ==
    IF r.kind = "return"
    THEN { r.code }
    ELSE IF r.exc = "KeyboardInterrupt" THEN { 1, 130 } ELSE { 1 }

(***************************************************************************)
(* The environment                                                         *)
(***************************************************************************)
\* the source file is replaced between the Image.open of _validate_input
\* (line 91) and the one of _prepare_source_image (line 161)
SourceChanged ==
    /\ pc \in { "resolve", "normalize" }
    /\ srcChanges < MaxSrcChanges
    /\ srcChanges' = srcChanges + 1
    /\ \E s \in Replacements \ { src } : src' = s
    /\ UNCHANGED << pc, input_image, output_dir, auto_scale, fs, now,
                    output_path, source_img, idx, generated_count, result,
                    err, vsrc, validated, mkdirDone, written, attempted,
                    failedSizes, countLogged, reported, interrupted,
                    manifestFailed, faults, runNo, fs0, fsStart, prev >>

\* the tool is invoked again with the same arguments
Restart ==
    /\ pc = "exit"
    /\ runNo < MaxRuns
    /\ runNo' = runNo + 1
    /\ prev' = [ result |-> result, validated |-> validated ]
    /\ fsStart' = fs
    /\ pc' = IF input_image THEN "validate" ELSE "prompt"
    /\ output_path' = NoPath
    /\ source_img' = NoImg
    /\ idx' = 1
    /\ generated_count' = 0
    /\ result' = Running
    /\ err' = NoErr
    /\ vsrc' = src
    /\ validated' = "pending"
    /\ mkdirDone' = FALSE
    /\ written' = {}
    /\ attempted' = << >>
    /\ failedSizes' = {}
    /\ countLogged' = -1
    /\ reported' = FALSE
    /\ interrupted' = FALSE
    /\ manifestFailed' = FALSE
    /\ UNCHANGED << input_image, output_dir, auto_scale, src, fs, now, faults,
                    srcChanges, fs0 >>

\* one invocation of main()
Next ==
    \/ Prompt
    \/ Validate
    \/ SetOutputDirectory
    \/ Normalize
    \/ ResizeStep
    \/ GenerateContentsJson
    \/ Report
    \/ Interrupt
    \/ SourceChanged

Spec == Init /\ [][Next]_vars

\* repeated invocations with the same explicit output directory, each one
\* running to its end: writes may fail, but no signal arrives and nothing
\* else writes to the source
NextRerun ==
    \/ Prompt
    \/ Validate
    \/ SetOutputDirectory
    \/ Normalize
    \/ ResizeStep
    \/ GenerateContentsJson
    \/ Report
    \/ Restart

InitRerun == Init /\ output_dir

SpecRerun == InitRerun /\ [][NextRerun]_vars

(***************************************************************************)
(* Properties                                                              *)
(***************************************************************************)
Sizes == SeqToSet(ICON_SIZES)

\* this run's validation saw a square, decodable image of a supported format
SawSquareImage ==
    /\ validated # "pending"
    /\ vsrc.kind = "file"
    /\ Lower(vsrc.suffix) \in SUPPORTED_FORMATS
    /\ vsrc.decodable
    /\ vsrc.w = vsrc.h

\* C1: on a square, decodable image of a supported format, validation fails
\* for an edge below 1024 whatever auto_scale is, fails for an edge above
\* 1024 without auto_scale, passes for an edge above 1024 with auto_scale,
\* and passes for an edge of 1024 whatever auto_scale is.
C1_SizePolicy ==
    SawSquareImage =>
        /\ (vsrc.w < 1024 => validated = "failed")
        /\ (vsrc.w > 1024 /\ ~auto_scale => validated = "failed")
        /\ (vsrc.w > 1024 /\ auto_scale => validated = "ok")
        /\ (vsrc.w = 1024 => validated = "ok")

C1_Witness ==
    /\ SawSquareImage
    /\ vsrc.w > 1024
    /\ auto_scale
    /\ validated = "ok"

\* C2: once validation has failed, the run is over and has had no output
\* side effect: mkdir was never called, no file was written, the filesystem
\* is as it was when the run started and no success was reported.
C2_NoOutputAfterFailedValidation ==
    validated = "failed" =>
        /\ pc = "exit"
        /\ result = Return(1)
        /\ ~mkdirDone
        /\ output_path = NoPath
        /\ written = {}
        /\ fs = fsStart
        /\ ~reported

C2_Witness ==
    /\ validated = "failed"
    /\ vsrc.decodable
    /\ vsrc.w # vsrc.h
    /\ pc = "exit"

\* the loop of generate_icons has run to its end in this run
LoopDone == countLogged # -1

\* C3: failures at a set F of sizes never abort the loop: every size is
\* attempted, in order; the files of all sizes outside F are written; the
\* logged count is 13 - |F|; the run goes on to the manifest write, and
\* unless that write fails or a signal arrives the manifest is written and
\* main returns 0.
C3_FailuresDoNotAbortLoop ==
    /\ (failedSizes # {} /\ pc = "exit" /\ ~interrupted => LoopDone)
    /\ LoopDone =>
        /\ attempted = ICON_SIZES
        /\ countLogged = 13 - Cardinality(failedSizes)
        /\ generated_count = countLogged
        /\ \A s \in Sizes \ failedSizes :
              /\ IconName(s) \in written
              /\ fs[output_path].files[IconName(s)] =
                     Png(ResizedImage(source_img, s))
        /\ pc \in { "manifest", "report", "exit" }
        /\ (pc = "exit" /\ ~interrupted /\ ~manifestFailed =>
              /\ ManifestName \in written
              /\ fs[output_path].files[ManifestName] = Template
              /\ result = Return(0))

C3_Witness ==
    /\ pc = "exit"
    /\ failedSizes = { 60 }
    /\ countLogged = 12
    /\ Cardinality(written \cap IconNames) = 12
    /\ ManifestName \in written
    /\ result = Return(0)

\* C4: a failed manifest write ends the run with exit code 1 and without the
\* success report, and the icon files the loop wrote stay on disk.
C4_ManifestFailureIsFatal ==
    manifestFailed =>
        /\ pc = "exit"
        /\ result = Return(1)
        /\ ~reported
        /\ ManifestName \notin written
        /\ \A s \in Sizes \ failedSizes :
              /\ IconName(s) \in written
              /\ fs[output_path].files[IconName(s)] =
                     Png(ResizedImage(source_img, s))

C4_Witness ==
    /\ manifestFailed
    /\ written = IconNames
    /\ result = Return(1)

\* C5 (as claimed): every finished invocation of main ends with exit code 0,
\* 1 or 130; 130 whenever a signal arrived, the prompt included; 0 exactly
\* when validation, mkdir, the loop and the manifest write all completed.
C5_ExitCodes ==
    pc = "exit" =>
        \A code \in ExitStatuses(result) :
            /\ code \in { 0, 1, 130 }
            /\ (interrupted <=> code = 130)
            /\ (code = 0 <=>
                  /\ validated = "ok"
                  /\ mkdirDone
                  /\ LoopDone
                  /\ ManifestName \in written
                  /\ ~interrupted)

\* the run of this invocation was undisturbed and went into a fresh directory
CleanFreshRun ==
    /\ pc = "exit"
    /\ validated = "ok"
    /\ ~interrupted
    /\ faults = 0
    /\ srcChanges = 0
    /\ fsStart[ResolvePath(output_dir, now)].kind = "absent"

\* C6: a validated input, run without I/O failure into a fresh directory,
\* leaves exactly the 13 files _{size}.png and Contents.json there; each
\* _{size}.png is size x size; _1024.png is the normalised source itself
\* (RGBA, resampled only by the downscale of an oversized source).
C6_OutputSet ==
    CleanFreshRun =>
        /\ result = Return(0)
        /\ output_path = ResolvePath(output_dir, now)
        /\ fs[output_path].kind = "dir"
        /\ { n \in Names : fs[output_path].files[n] # NoFile } = GeneratedNames
        /\ fs[output_path].files[ManifestName] = Template
        /\ \A s \in Sizes :
              LET f == fs[output_path].files[IconName(s)]
              IN  /\ f.kind = "png"
                  /\ f.img.w = s
                  /\ f.img.h = s
        /\ fs[output_path].files[IconName(1024)].img = source_img
        /\ source_img.mode = "RGBA"
        /\ source_img.passes = IF vsrc.w = 1024 THEN 0 ELSE 1

C6_Witness ==
    /\ CleanFreshRun
    /\ vsrc.w = 2048
    /\ vsrc.mode = "RGB"
    /\ result = Return(0)

\* the generated files of a directory entry
GeneratedPart(d) == [ n \in GeneratedNames |-> d.files[n] ]

\* this invocation and the one before it both got a valid source and an
\* explicit output path that was not a regular file, and no write failed
TwoCleanRuns ==
    /\ runNo >= 2
    /\ pc = "exit"
    /\ output_dir
    /\ faults = 0
    /\ validated = "ok"
    /\ prev.validated = "ok"
    /\ fs0[ExplicitPath].kind # "file"

\* C7: two runs on the same source with the same explicit output directory
\* both return 0; the second overwrites the 13 icons and Contents.json and
\* leaves the same generated files as the first; a file with another name
\* is never changed by any run.
C7_Idempotent ==
    /\ \A p \in Paths :
          fs[p].files[UnrelatedName] = fs0[p].files[UnrelatedName]
    /\ TwoCleanRuns =>
          /\ prev.result = Return(0)
          /\ result = Return(0)
          /\ written = GeneratedNames
          /\ GeneratedPart(fs[ExplicitPath]) = GeneratedPart(fsStart[ExplicitPath])
          /\ \A n \in GeneratedNames : fs[ExplicitPath].files[n] # NoFile

C7_Witness ==
    /\ TwoCleanRuns
    /\ fs0[ExplicitPath] = UsedDir
    /\ fs[ExplicitPath].files[UnrelatedName] = Foreign
    /\ fs[ExplicitPath].files[IconName(60)].kind = "png"
    /\ result = Return(0)

\* which of the seven conditions a source is in, by the order of the checks
Condition(s, auto) ==
    IF s.kind = "missing" THEN "NotFound"
    ELSE IF s.kind # "file" THEN "NotAFile"
    ELSE IF Lower(s.suffix) \notin SUPPORTED_FORMATS THEN "UnsupportedFormat"
    ELSE IF ~s.decodable THEN "DecodeFailure"
    ELSE IF s.w # s.h THEN "NotSquare"
    ELSE IF s.w < 1024 THEN "TooSmall"
    ELSE IF s.w > 1024 /\ ~auto THEN "TooLargeWithoutAutoScale"
    ELSE "Valid"

\* what a caller learns from the class of an exception and the head of its
\* message
CallerSees(e) ==
    CASE e.cls = "FileNotFoundError" -> "NotFound"
      [] e.label = "Path is not a file" -> "NotAFile"
      [] e.label = "Unsupported format" -> "UnsupportedFormat"
      [] e.label = "Failed to open image" -> "DecodeFailure"
      [] e.label = "Image must be square" -> "NotSquare"
      [] e.label = "Image size is smaller than required" -> "TooSmall"
      [] e.label = "Image size is larger than required" ->
             "TooLargeWithoutAutoScale"
      [] OTHER -> "Unknown"

\* C8 (as claimed): the exception the validator surfaces tells its caller
\* which of the seven conditions occurred.
C8_DistinctErrors ==
    validated = "failed" => CallerSees(err) = Condition(vsrc, auto_scale)

Rank(p) ==
    CASE p = "prompt" -> 0
      [] p = "validate" -> 1
      [] p = "resolve" -> 2
      [] p = "normalize" -> 3
      [] p = "resize" -> 4
      [] p = "manifest" -> 5
      [] p = "report" -> 6
      [] p = "exit" -> 7

\* what holds of the phases in every state
C9_PhaseInvariant ==
    /\ Len(attempted) <= Len(ICON_SIZES)
    /\ attempted = SubSeq(ICON_SIZES, 1, Len(attempted))
    /\ (Rank(pc) < 2 => ~mkdirDone)
    /\ (Rank(pc) < 4 => attempted = << >> /\ written = {})
    /\ (Rank(pc) < 5 => ManifestName \notin written)
    /\ (Rank(pc) < 7 => ~reported)
    /\ (ManifestName \in written => attempted = ICON_SIZES /\ source_img # NoImg)
    /\ (reported => ManifestName \in written)
    /\ (pc = "exit" /\ attempted # ICON_SIZES =>
           ManifestName \notin written /\ ~reported)

\* what holds of every step
C9_PhaseStep ==
    /\ pc' # pc => Rank(pc') > Rank(pc)
    /\ pc' = pc /\ idx' # idx => pc = "resize"
    /\ idx' # idx =>
          /\ idx' = idx + 1
          /\ attempted' = Append(attempted, ICON_SIZES[idx])
    /\ (ManifestName \in written' /\ ManifestName \notin written) =>
          pc = "manifest"
    /\ reported' /\ ~reported => pc = "report"

\* C9: the phases come in the order Validate, Resolve-Output, Normalize,
\* Resize (the 13 sizes in list order, once each), Emit-Manifest, Report,
\* with no step back; the manifest is written only after all 13 sizes were
\* attempted, and a run that ends earlier writes no manifest and reports no
\* success.
C9_PhaseOrder == []C9_PhaseInvariant /\ [][C9_PhaseStep]_vars

C9_Witness ==
    /\ pc = "exit"
    /\ reported
    /\ attempted = ICON_SIZES
    /\ ManifestName \in written

\* C10 (as claimed): what _prepare_source_image returned has edge 1024.
C10_PreparedIsCanonical ==
    source_img # NoImg => source_img.w = 1024 /\ source_img.h = 1024

====
